---- MODULE Spec2Model ----
(***************************************************************************)
(* Model of the tool-mediated response loop of the course-content          *)
(* assistant: backend/search_tools.py (Tool, CourseSearchTool,             *)
(* CourseOutlineTool, ToolManager) and backend/ai_generator.py             *)
(* (AIGenerator.generate_response, AIGenerator._handle_tool_execution).    *)
(*                                                                         *)
(* Python values are modelled as follows.                                  *)
(*   str            a TLA+ string; f-strings and + are \o                  *)
(*   Optional[T]    None is <<>>, a present value v is <<v>>               *)
(*   dict           a function from its keys (strings) to its values;      *)
(*                  "k in d" is k \in DOMAIN d                             *)
(*   list           a sequence                                             *)
(*   a call         a record  [raised |-> the exception class or "",       *)
(*                             value  |-> the returned value, ...]         *)
(***************************************************************************)
EXTENDS Integers, Sequences, FiniteSets, TLC

VARIABLES
    tools,          \* ToolManager.tools: the insertion-ordered dict, as a sequence of [name, tool]
    last_sources,   \* CourseSearchTool.last_sources of every CourseSearchTool object
    call,           \* the operation performed last, with its inputs
    ret,            \* what that operation returned or raised
    latest,         \* history: per name, the tool object most recently registered under it
    req             \* per request: the position and locals of generate_response and of its caller

vars == <<tools, last_sources, call, ret, latest, req>>

(***************************************************************************)
(* Bounds of the model.                                                    *)
(***************************************************************************)
\* longest result set the retrieval backend returns
MaxHits == 2
\* most tool calls the completion oracle requests in one response
MaxCalls == 2
\* longest result set where only the number of hits matters, not their content
MaxFewHits == 1

(***************************************************************************)
(* Python helpers.                                                         *)
(***************************************************************************)
None == <<>>

Some(v) == <<v>>

\* truthiness of an Optional[str]: None and "" are falsy
TruthyStr(o) == o # None /\ o[1] # ""

\* truthiness of an Optional[int]: None and 0 are falsy
TruthyInt(o) == o # None /\ o[1] # 0

\* dict.get(key) with a default, for a value that is returned wrapped as Optional
DictGet(d, key) == IF key \in DOMAIN d THEN Some(d[key]) ELSE None

Min(a, b) == IF a <= b THEN a ELSE b

\* sep.join(parts)
RECURSIVE Join(_, _)
Join(parts, sep) ==
    IF Len(parts) = 0 THEN ""
    ELSE IF Len(parts) = 1 THEN parts[1]
    ELSE parts[1] \o sep \o Join(Tail(parts), sep)

Returned(v) == [raised |-> "", value |-> v]

Raised(exc) == [raised |-> exc, value |-> ""]

(***************************************************************************)
(* The retrieval backend (vector_store.VectorStore, SearchResults): an     *)
(* external collaborator.  Its answers are inputs of the model.            *)
(***************************************************************************)
\* the hits the backend can return: a text chunk and its metadata mapping
Hits ==
    { [doc |-> "d1", meta |-> [course_title |-> "X", lesson_number |-> 2]],
      [doc |-> "d2", meta |-> [course_title |-> "X", lesson_number |-> 0]],
      [doc |-> "d3", meta |-> [course_title |-> "Y"]],
      [doc |-> "d4", meta |-> [lesson_number |-> 1]] }

\* store.get_lesson_link(course_title, lesson_number) -> URL | None
get_lesson_link(course_title, lesson_num) ==
    IF course_title = "X" /\ lesson_num = 2 THEN Some("https://l/x2")
    ELSE IF course_title = "unknown" /\ lesson_num = 1 THEN Some("")
    ELSE None

\* a SearchResults value built from a sequence of hits
ResultsOf(hs) ==
    [documents |-> [i \in 1..Len(hs) |-> hs[i].doc],
     metadata  |-> [i \in 1..Len(hs) |-> hs[i].meta],
     error     |-> None]

\* SearchResults.empty(error_msg)
ErrorResults(msg) == [documents |-> <<>>, metadata |-> <<>>, error |-> Some(msg)]

HitSeqs(n) == UNION { [1..k -> Hits] : k \in 0..n }

\* everything store.search may answer
SearchAnswers(n) ==
    { ResultsOf(hs) : hs \in HitSeqs(n) } \cup { ErrorResults("Search error: boom") }

\* SearchResults.is_empty()
is_empty(results) == Len(results.documents) = 0

(***************************************************************************)
(* CourseSearchTool                                                        *)
(***************************************************************************)
SearchName == "search_course_content"

OutlineName == "get_course_outline"

\* one hit's header, lines 97-115
Header(meta) ==
    LET course_title == IF "course_title" \in DOMAIN meta THEN meta.course_title ELSE "unknown"
        lesson_num   == DictGet(meta, "lesson_number")
        lesson_link  == IF lesson_num # None
                        THEN get_lesson_link(course_title, lesson_num[1]) ELSE None
        lesson_part  == IF lesson_num # None
                        THEN " - Lesson " \o ToString(lesson_num[1]) ELSE ""
    IN  IF TruthyStr(lesson_link)
        THEN "[" \o course_title \o lesson_part \o "](" \o lesson_link[1] \o ")"
        ELSE "[" \o course_title \o lesson_part \o "]"

\* Source with the plain form written like the header, between square brackets
Source_bracketed(meta) == Header(meta)

\* one hit's source, lines 97-104 and 117-127
Source(meta) ==
    LET course_title == IF "course_title" \in DOMAIN meta THEN meta.course_title ELSE "unknown"
        lesson_num   == DictGet(meta, "lesson_number")
        lesson_link  == IF lesson_num # None
                        THEN get_lesson_link(course_title, lesson_num[1]) ELSE None
        lesson_part  == IF lesson_num # None
                        THEN " - Lesson " \o ToString(lesson_num[1]) ELSE ""
    IN  IF TruthyStr(lesson_link)
        THEN "[" \o course_title \o lesson_part \o "](" \o lesson_link[1] \o ")"
        ELSE course_title \o lesson_part

\* _format_results recording a source only for the hits that carry a lesson number
_format_results_dropping(results) ==
    LET n         == Min(Len(results.documents), Len(results.metadata))
        formatted == [i \in 1..n |-> Header(results.metadata[i]) \o "\n" \o results.documents[i]]
        kept      == SelectSeq(results.metadata, LAMBDA m : "lesson_number" \in DOMAIN m)
        sources   == [i \in 1..Len(kept) |-> Source(kept[i])]
    IN  [text |-> Join(formatted, "\n\n"), last_sources |-> sources]

\* CourseSearchTool._format_results: the returned text and the value stored in last_sources
_format_results(results) ==
    LET n         == Min(Len(results.documents), Len(results.metadata))
        formatted == [i \in 1..n |-> Header(results.metadata[i]) \o "\n" \o results.documents[i]]
        sources   == [i \in 1..n |-> Source(results.metadata[i])]
    IN  [text |-> Join(formatted, "\n\n"), last_sources |-> sources]

\* binding of **kwargs to execute(self, query, course_name=None, lesson_number=None)
SearchBinds(kwargs) ==
    /\ DOMAIN kwargs \subseteq {"query", "course_name", "lesson_number"}
    /\ "query" \in DOMAIN kwargs

\* the message of the empty-result branch, lines 81-86
EmptyMessage(course_name, lesson_number) ==
    LET f1 == IF TruthyStr(course_name) THEN " in course '" \o course_name[1] \o "'" ELSE ""
        f2 == IF TruthyInt(lesson_number)
              THEN " in lesson " \o ToString(lesson_number[1]) ELSE ""
    IN  "No relevant content found" \o f1 \o f2 \o "."

\* execute clearing last_sources whenever it formats no result
CourseSearchTool_execute_clearing(ls, kwargs, results) ==
    IF ~SearchBinds(kwargs)
    THEN Raised("TypeError") @@ [last_sources |-> ls]
    ELSE LET course_name   == IF "course_name" \in DOMAIN kwargs THEN kwargs.course_name ELSE None
             lesson_number == IF "lesson_number" \in DOMAIN kwargs
                              THEN kwargs.lesson_number ELSE None
         IN  IF TruthyStr(results.error)
             THEN Returned(results.error[1]) @@ [last_sources |-> <<>>]
             ELSE IF is_empty(results)
             THEN Returned(EmptyMessage(course_name, lesson_number)) @@ [last_sources |-> <<>>]
             ELSE LET f == _format_results(results)
                  IN  Returned(f.text) @@ [last_sources |-> f.last_sources]

\* CourseSearchTool.execute on a tool whose last_sources is ls, the backend answering results
CourseSearchTool_execute(ls, kwargs, results) ==
    IF ~SearchBinds(kwargs)
    THEN Raised("TypeError") @@ [last_sources |-> ls]
    ELSE LET course_name   == IF "course_name" \in DOMAIN kwargs THEN kwargs.course_name ELSE None
             lesson_number == IF "lesson_number" \in DOMAIN kwargs
                              THEN kwargs.lesson_number ELSE None
         IN  IF TruthyStr(results.error)
             THEN Returned(results.error[1]) @@ [last_sources |-> ls]
             ELSE IF is_empty(results)
             THEN Returned(EmptyMessage(course_name, lesson_number)) @@ [last_sources |-> ls]
             ELSE LET f == _format_results(results)
                  IN  Returned(f.text) @@ [last_sources |-> f.last_sources]

(***************************************************************************)
(* json.loads: a JSON text is modelled by whether it is well formed and,   *)
(* when it is, by the Python value it decodes to.                          *)
(***************************************************************************)
JsonText(v) == [wellformed |-> TRUE, value |-> v]

MalformedJson == [wellformed |-> FALSE, value |-> None]

json_loads(text) ==
    IF text.wellformed THEN Returned(text.value) ELSE Raised("JSONDecodeError")

(***************************************************************************)
(* CourseOutlineTool.  Emoji of the rendered outline are written as        *)
(* ASCII names between colons.                                             *)
(***************************************************************************)
\* what the backend answers to one outline lookup: store._resolve_course_name(course_name)
\* and store.course_catalog.get(ids=[title]) (raising, or its 'metadatas' list)
OutlineAnswers ==
    { [resolved |-> None, get_raises |-> FALSE, metadatas |-> <<>>],
      [resolved |-> Some("X"), get_raises |-> TRUE, metadatas |-> <<>>],
      [resolved |-> Some("X"), get_raises |-> FALSE, metadatas |-> <<>>],
      [resolved |-> Some("X"), get_raises |-> FALSE, metadatas |-> << [instructor |-> ""] >>],
      [resolved |-> Some("X"), get_raises |-> FALSE,
       metadatas |-> << [title |-> "Course X", lessons_json |-> MalformedJson] >>],
      [resolved |-> Some("X"), get_raises |-> FALSE,
       metadatas |-> << [title |-> "Course X", instructor |-> "Ann",
                         course_link |-> "https://c/x",
                         lessons_json |-> JsonText(<<
                             [lesson_number |-> 1, lesson_title |-> "One",
                              lesson_link |-> "https://l/x1"],
                             [lesson_number |-> 0, lesson_title |-> "Intro"] >>)] >>] }

\* lesson.get('lesson_number', 0), the sort key of line 237
LessonKey(lesson) == IF "lesson_number" \in DOMAIN lesson THEN lesson.lesson_number ELSE 0

\* sorted(lessons, key=...): stable, ascending
RECURSIVE Insert(_, _)
Insert(sortedSeq, lesson) ==
    IF Len(sortedSeq) = 0 THEN <<lesson>>
    ELSE IF LessonKey(lesson) < LessonKey(sortedSeq[1])
    THEN <<lesson>> \o sortedSeq
    ELSE <<sortedSeq[1]>> \o Insert(Tail(sortedSeq), lesson)

RECURSIVE sorted(_)
sorted(lessons) ==
    IF Len(lessons) = 0 THEN <<>>
    ELSE Insert(sorted(SubSeq(lessons, 1, Len(lessons) - 1)), lessons[Len(lessons)])

\* one lesson's line, lines 240-247
LessonLine(lesson) ==
    LET lesson_num   == IF "lesson_number" \in DOMAIN lesson
                        THEN ToString(lesson.lesson_number) ELSE "None"
        lesson_title == IF "lesson_title" \in DOMAIN lesson THEN lesson.lesson_title ELSE "Untitled"
        lesson_link  == DictGet(lesson, "lesson_link")
    IN  IF TruthyStr(lesson_link)
        THEN "**" \o lesson_num \o ".** :book: **[" \o lesson_title \o "](" \o lesson_link[1] \o ")**"
        ELSE "**" \o lesson_num \o ".** :book: **" \o lesson_title \o "**"

\* CourseOutlineTool._format_course_outline
_format_course_outline(title, instructor, course_link, lessons) ==
    LET head    == << "---", "",
                      IF TruthyStr(course_link)
                      THEN "# :cap: **[" \o title \o "](" \o course_link[1] \o ")**"
                      ELSE "# :cap: **" \o title \o "**",
                      "" >>
        teacher == IF instructor # ""
                   THEN << ":teacher: **Instructor:** " \o instructor, "" >> ELSE <<>>
        link    == IF TruthyStr(course_link)
                   THEN << ":link: **Course Link:** [Access Course](" \o course_link[1] \o ")", "" >>
                   ELSE <<>>
        srt     == sorted(lessons)
        body    == IF Len(lessons) > 0
                   THEN << "## :books: **Course Lessons**", "" >>
                        \o [i \in 1..Len(srt) |-> LessonLine(srt[i])]
                   ELSE << "## :books: **Course Lessons**", "",
                           ":info: No lessons available for this course." >>
    IN  Join(head \o teacher \o link \o << "---", "" >> \o body \o << "", "---" >>, "\n")

\* binding of **kwargs to execute(self, course_name)
OutlineBinds(kwargs) == DOMAIN kwargs = {"course_name"}

\* CourseOutlineTool.execute, the backend answering ans
CourseOutlineTool_execute(kwargs, ans) ==
    IF ~OutlineBinds(kwargs) THEN Raised("TypeError")
    ELSE IF ~TruthyStr(ans.resolved)
    THEN Returned("No course found matching '"
                  \o (IF kwargs.course_name = None THEN "None" ELSE kwargs.course_name[1]) \o "'")
    ELSE IF ans.get_raises THEN Returned("Error retrieving course outline: boom")
    ELSE IF Len(ans.metadatas) = 0
    THEN Returned("Course metadata not found for '" \o ans.resolved[1] \o "'")
    ELSE LET metadata     == ans.metadatas[1]
             course_title == IF "title" \in DOMAIN metadata THEN metadata.title ELSE ans.resolved[1]
             instructor   == IF "instructor" \in DOMAIN metadata
                             THEN metadata.instructor ELSE "Unknown"
             course_link  == DictGet(metadata, "course_link")
             parsed       == IF "lessons_json" \in DOMAIN metadata
                             THEN json_loads(metadata.lessons_json) ELSE Returned(<<>>)
         IN  IF parsed.raised # ""
             THEN Returned("Error retrieving course outline: " \o parsed.raised)
             ELSE Returned(_format_course_outline(course_title, instructor, course_link,
                                                  parsed.value))

(***************************************************************************)
(* Tool objects.  cs1, cs2 are CourseSearchTool objects, ol1 is a          *)
(* CourseOutlineTool; flat1, anon1 and anon2 are other implementations of  *)
(* the Tool interface, whose definitions have the flat shape, no name, and *)
(* an empty name.                                                          *)
(***************************************************************************)
ToolObjects == {"cs1", "cs2", "ol1", "flat1", "anon1", "anon2"}

SearchTools == {"cs1", "cs2"}

ClassOf(tool) ==
    CASE tool \in SearchTools -> "CourseSearchTool"
      [] tool = "ol1"         -> "CourseOutlineTool"
      [] OTHER                -> "Tool"

\* hasattr(tool, 'last_sources'): set in CourseSearchTool.__init__ only
HasLastSources(tool) == ClassOf(tool) = "CourseSearchTool"

\* tool.get_tool_definition()
get_tool_definition(tool) ==
    CASE ClassOf(tool) = "CourseSearchTool" ->
            [type |-> "function", function |-> [name |-> SearchName, required |-> <<"query">>]]
      [] ClassOf(tool) = "CourseOutlineTool" ->
            [type |-> "function", function |-> [name |-> OutlineName, required |-> <<"course_name">>]]
      [] tool = "flat1" -> [name |-> "flat_tool", description |-> "flat"]
      [] tool = "anon1" -> [type |-> "function", function |-> [description |-> "nameless"]]
      [] OTHER          -> [name |-> "", description |-> "empty name"]

(***************************************************************************)
(* ToolManager                                                             *)
(***************************************************************************)
\* tool_name in self.tools
Registered(tls, tool_name) == \E i \in 1..Len(tls) : tls[i].name = tool_name

\* self.tools[tool_name]
Lookup(tls, tool_name) == tls[CHOOSE i \in 1..Len(tls) : tls[i].name = tool_name].tool

\* a store that keeps the first tool registered under a name
DictSet_setdefault(tls, tool_name, tool) ==
    IF Registered(tls, tool_name) THEN tls
    ELSE Append(tls, [name |-> tool_name, tool |-> tool])

\* self.tools[tool_name] = tool: a dict keeps the position of a key it already holds
DictSet(tls, tool_name, tool) ==
    IF Registered(tls, tool_name)
    THEN [i \in 1..Len(tls) |->
            IF tls[i].name = tool_name THEN [name |-> tool_name, tool |-> tool] ELSE tls[i]]
    ELSE Append(tls, [name |-> tool_name, tool |-> tool])

\* ToolManager.register_tool
register_tool(tls, tool) ==
    LET tool_def  == get_tool_definition(tool)
        tool_name == IF "function" \in DOMAIN tool_def
                     THEN DictGet(tool_def.function, "name")
                     ELSE DictGet(tool_def, "name")
    IN  IF ~TruthyStr(tool_name)
        THEN [raised |-> "ValueError", tools |-> tls]
        ELSE [raised |-> "", tools |-> DictSet(tls, tool_name[1], tool)]

\* ToolManager.get_tool_definitions
get_tool_definitions(tls) == [i \in 1..Len(tls) |-> get_tool_definition(tls[i].tool)]

\* tool.execute(**kwargs) of a registered tool object; answer is what the backend answers
Tool_execute(tool, ls, kwargs, answer) ==
    CASE ClassOf(tool) = "CourseSearchTool" ->
            LET r == CourseSearchTool_execute(ls[tool], kwargs, answer)
            IN  [raised |-> r.raised, value |-> r.value,
                 last_sources |-> [ls EXCEPT ![tool] = r.last_sources]]
      [] ClassOf(tool) = "CourseOutlineTool" ->
            CourseOutlineTool_execute(kwargs, answer) @@ [last_sources |-> ls]
      [] OTHER -> Returned(answer) @@ [last_sources |-> ls]

\* execute_tool indexing the dict without the membership test
execute_tool_unchecked(tls, ls, tool_name, kwargs, answer) ==
    IF ~Registered(tls, tool_name)
    THEN Raised("KeyError") @@ [last_sources |-> ls]
    ELSE Tool_execute(Lookup(tls, tool_name), ls, kwargs, answer)

\* ToolManager.execute_tool
execute_tool(tls, ls, tool_name, kwargs, answer) ==
    IF ~Registered(tls, tool_name)
    THEN Returned("Tool '" \o tool_name \o "' not found") @@ [last_sources |-> ls]
    ELSE Tool_execute(Lookup(tls, tool_name), ls, kwargs, answer)

\* ToolManager.get_last_sources
get_last_sources(tls, ls) ==
    LET hit == { i \in 1..Len(tls) : HasLastSources(tls[i].tool) /\ Len(ls[tls[i].tool]) > 0 }
    IN  IF hit = {} THEN <<>>
        ELSE ls[tls[CHOOSE i \in hit : \A j \in hit : i <= j].tool]

\* reset_sources leaving the loop after the first registered tool
reset_sources_first(tls, ls) ==
    [t \in DOMAIN ls |->
        IF Len(tls) > 0 /\ tls[1].tool = t /\ HasLastSources(t) THEN <<>> ELSE ls[t]]

\* ToolManager.reset_sources
reset_sources(tls, ls) ==
    [t \in DOMAIN ls |->
        IF \E i \in 1..Len(tls) : tls[i].tool = t /\ HasLastSources(t) THEN <<>> ELSE ls[t]]

(***************************************************************************)
(* Inputs of the registry operations.                                      *)
(***************************************************************************)
\* keyword arguments that bind to CourseSearchTool.execute
SearchKwargs ==
    { [query |-> "q"] @@ c @@ l :
        c \in { <<>>, [course_name |-> Some("X")], [course_name |-> Some("")] },
        l \in { <<>>, [lesson_number |-> Some(0)], [lesson_number |-> Some(2)] } }

\* keyword arguments that do not: no query (they bind to CourseOutlineTool.execute), an unknown key
OtherKwargs == { [course_name |-> Some("X")], [query |-> "q", limit |-> Some(5)] }

\* what the backend (or the tool itself) can answer when tool object tool is executed
AnswersOf(tool, kwargs, answers) ==
    CASE ClassOf(tool) = "CourseSearchTool" ->
            IF kwargs = [query |-> "q"] THEN answers ELSE SearchAnswers(0)
      [] ClassOf(tool) = "CourseOutlineTool" -> OutlineAnswers
      [] OTHER -> {"flat result"}

AnswersFor(tls, tool_name, kwargs, answers) ==
    IF Registered(tls, tool_name)
    THEN AnswersOf(Lookup(tls, tool_name), kwargs, answers) ELSE {None}

\* the answers to a search used where the result set's content does not matter:
\* an error, no hit, up to MaxFewHits times the same hit
FewAnswers == { r \in SearchAnswers(MaxFewHits) : \A i \in 1..Len(r.documents) : r.documents[i] = "d1" }

\* the names execute_tool is called with: the registrable ones and one that never is
ToolNames == {SearchName, OutlineName, "flat_tool", "nope"}

NoSources == [t \in SearchTools |-> <<>>]

\* a request that has not started: generate_response's locals and its caller's
Idle ==
    [pc |-> "idle", tool_manager |-> FALSE, api_calls |-> <<>>, response |-> None,
     messages |-> <<>>, i |-> 0, result |-> Returned(None),
     collected |-> <<>>, own |-> <<>>, touched |-> FALSE]

\* history only: the non-empty name a tool object's definition declares, if any
DefinedName(tool) ==
    CASE tool \in SearchTools -> Some(SearchName)
      [] tool = "ol1"         -> Some(OutlineName)
      [] tool = "flat1"       -> Some("flat_tool")
      [] OTHER                -> None

(***************************************************************************)
(* The registry operations, each a whole call.                             *)
(***************************************************************************)
RegisterTool(tool) ==
    LET r == register_tool(tools, tool)
    IN  /\ tools' = r.tools
        /\ call' = [op |-> "register_tool", tool |-> tool]
        /\ ret' = [raised |-> r.raised, value |-> None]
        /\ latest' = IF DefinedName(tool) # None
                     THEN (DefinedName(tool)[1] :> tool) @@ latest ELSE latest
        /\ UNCHANGED <<last_sources, req>>

GetToolDefinitions ==
    /\ call' = [op |-> "get_tool_definitions"]
    /\ ret' = Returned(get_tool_definitions(tools))
    /\ UNCHANGED <<tools, last_sources, latest, req>>

ExecuteTool(tool_name, kwargs, answer) ==
    LET r == execute_tool(tools, last_sources, tool_name, kwargs, answer)
    IN  /\ last_sources' = r.last_sources
        /\ call' = [op |-> "execute_tool", tool_name |-> tool_name, kwargs |-> kwargs,
                    answer |-> answer]
        /\ ret' = [raised |-> r.raised, value |-> r.value]
        /\ UNCHANGED <<tools, latest, req>>

GetLastSources ==
    /\ call' = [op |-> "get_last_sources"]
    /\ ret' = Returned(get_last_sources(tools, last_sources))
    /\ UNCHANGED <<tools, last_sources, latest, req>>

ResetSources ==
    /\ last_sources' = reset_sources(tools, last_sources)
    /\ call' = [op |-> "reset_sources", before |-> get_last_sources(tools, last_sources)]
    /\ ret' = Returned(None)
    /\ UNCHANGED <<tools, latest, req>>

(***************************************************************************)
(* SpecSearch: the content search tool behind a registry that holds cs1    *)
(* and ol1, as the application registers them.                             *)
(***************************************************************************)
AppTools == register_tool(register_tool(<<>>, "cs1").tools, "ol1").tools

InitSearch ==
    /\ tools = AppTools
    /\ last_sources = NoSources
    /\ call = [op |-> "init"]
    /\ ret = Returned(None)
    /\ latest = (SearchName :> "cs1") @@ (OutlineName :> "ol1")
    /\ req = [r \in {1, 2} |-> Idle]

ExecuteSearch ==
    \E kwargs \in SearchKwargs \cup OtherKwargs :
        \E answer \in AnswersFor(tools, SearchName, kwargs, SearchAnswers(MaxHits)) :
            ExecuteTool(SearchName, kwargs, answer)

NextSearch ==
    \/ ExecuteSearch
    \/ GetLastSources
    \/ ResetSources

SpecSearch == InitSearch /\ [][NextSearch]_vars

(***************************************************************************)
(* SpecRegistry: any sequence of register, list, execute, collect and      *)
(* reset operations on a registry that starts empty.                       *)
(***************************************************************************)
InitRegistry ==
    /\ tools = <<>>
    /\ last_sources = NoSources
    /\ call = [op |-> "init"]
    /\ ret = Returned(None)
    /\ latest = <<>>
    /\ req = [r \in {1, 2} |-> Idle]

Register == \E tool \in ToolObjects : RegisterTool(tool)

Execute ==
    \E tool_name \in ToolNames, kwargs \in { [query |-> "q"], [course_name |-> Some("X")] } :
        \E answer \in AnswersFor(tools, tool_name, kwargs, FewAnswers) :
            ExecuteTool(tool_name, kwargs, answer)

NextRegistry ==
    \/ Register
    \/ GetToolDefinitions
    \/ Execute
    \/ GetLastSources
    \/ ResetSources

SpecRegistry == InitRegistry /\ [][NextRegistry]_vars

(***************************************************************************)
(* Properties of the content search tool, checked under SpecSearch.        *)
(***************************************************************************)
\* the last step was execute_tool on the content search tool and its body ran
SearchRan ==
    /\ call.op = "execute_tool"
    /\ call.tool_name = SearchName
    /\ SearchBinds(call.kwargs)

\* ... and the backend returned at least one hit
SearchHit == SearchRan /\ ~TruthyStr(call.answer.error) /\ ~is_empty(call.answer)

\* the sources of a result set, hit by hit
SourcesOf(results) == [i \in 1..Len(results.documents) |-> Source(results.metadata[i])]

BlocksOf(hdr, results) ==
    Join([i \in 1..Len(results.documents) |-> hdr[i] \o "\n" \o results.documents[i]], "\n\n")

\* a lesson link is resolvable for the hit
LinkResolvable(meta) ==
    /\ "lesson_number" \in DOMAIN meta
    /\ TruthyStr(get_lesson_link(
           IF "course_title" \in DOMAIN meta THEN meta.course_title ELSE "unknown",
           meta.lesson_number))

\* C8 as stated: for a non-empty result set the i-th stored source is the
\* header of the i-th block of the returned text, in the link form and in the
\* plain form alike.
C8_SourceIsHeader ==
    SearchHit =>
        /\ Len(last_sources["cs1"]) = Len(call.answer.documents)
        /\ ret.value = BlocksOf(last_sources["cs1"], call.answer)

\* C8 amended: for a non-empty result set the i-th stored source is the header
\* of the i-th block when a lesson link is resolvable; when none is, the source
\* is that header without its enclosing square brackets.
C8_SourceIsHeaderOrItsText ==
    SearchHit =>
        /\ Len(last_sources["cs1"]) = Len(call.answer.documents)
        /\ ret.value =
             BlocksOf([i \in 1..Len(call.answer.documents) |->
                          IF LinkResolvable(call.answer.metadata[i])
                          THEN last_sources["cs1"][i]
                          ELSE "[" \o last_sources["cs1"][i] \o "]"],
                      call.answer)

\* a search returned one hit with a resolvable link and one without
C8_Witness ==
    /\ SearchHit
    /\ Len(call.answer.documents) = 2
    /\ LinkResolvable(call.answer.metadata[1])
    /\ ~LinkResolvable(call.answer.metadata[2])
    /\ ret.raised = ""

\* C9 as stated: on an empty result set without error the message names the
\* course if and only if a course_name was passed and the lesson if and only
\* if a lesson_number was passed, 0 included.
C9_NamesAppliedFilters ==
    (SearchRan /\ call.answer.error = None /\ is_empty(call.answer)) =>
        ret.value =
            "No relevant content found"
            \o (IF "course_name" \in DOMAIN call.kwargs
                THEN " in course '" \o call.kwargs.course_name[1] \o "'" ELSE "")
            \o (IF "lesson_number" \in DOMAIN call.kwargs
                THEN " in lesson " \o ToString(call.kwargs.lesson_number[1]) ELSE "")
            \o "."

(***************************************************************************)
(* Properties of the registry, checked under SpecRegistry.                 *)
(***************************************************************************)
\* C5: right after reset_sources, get_last_sources returns the empty sequence,
\* and a second reset_sources changes no tool's last_sources.
C5_ResetThenCollectIsEmpty ==
    call.op = "reset_sources" =>
        /\ get_last_sources(tools, last_sources) = <<>>
        /\ reset_sources(tools, last_sources) = last_sources

\* reset_sources has cleared sources that get_last_sources was returning
C5_Witness ==
    /\ call.op = "reset_sources"
    /\ call.before # <<>>
    /\ Len(tools) > 1

C7_Registry ==
    /\ \A i, j \in 1..Len(tools) : tools[i].name = tools[j].name => i = j
    /\ { tools[i].name : i \in 1..Len(tools) } = DOMAIN latest
    /\ \A i \in 1..Len(tools) : tools[i].tool = latest[tools[i].name]
    /\ Len(get_tool_definitions(tools)) = Cardinality(DOMAIN latest)
    /\ \A i \in 1..Len(tools) :
           get_tool_definitions(tools)[i] = get_tool_definition(latest[tools[i].name])
    /\ \A name \in DOMAIN latest :
           \A kwargs \in { [query |-> "q"], [course_name |-> Some("X")] } :
               \A answer \in AnswersOf(latest[name], kwargs, FewAnswers) :
                   execute_tool(tools, last_sources, name, kwargs, answer)
                       = Tool_execute(latest[name], last_sources, kwargs, answer)

\* C7: after any sequence of register_tool calls the registry holds one tool per
\* distinct name, the one registered last under it: execute_tool dispatches to
\* it and get_tool_definitions lists its definition.  register_tool raises
\* ValueError exactly for a tool whose definition yields no name, and then
\* leaves the registry as it was.
C7_LastRegistrationWins ==
    /\ []C7_Registry
    /\ [][call'.op = "register_tool" =>
             /\ (ret'.raised = "ValueError") <=> (DefinedName(call'.tool) = None)
             /\ ret'.raised \in {"", "ValueError"}
             /\ ret'.raised = "ValueError" => tools' = tools]_vars

\* cs2 has just replaced cs1, which had been registered and used, under the same name
C7_Witness ==
    /\ call.op = "register_tool"
    /\ call.tool = "cs2"
    /\ Len(last_sources["cs1"]) > 0
    /\ Len(tools) = 3
    /\ tools[1] = [name |-> SearchName, tool |-> "cs2"]

(***************************************************************************)
(* AIGenerator                                                             *)
(***************************************************************************)
\* AIGenerator.SYSTEM_PROMPT, abbreviated
SYSTEM_PROMPT == " You are an AI assistant specialized in course materials ..."

\* AIGenerator.base_params
base_params == [model |-> "gpt", temperature |-> 0, max_tokens |-> 800]

\* the decoded arguments of a tool call: a JSON object (a mapping) or another JSON value
JsonObject(kwargs) == [mapping |-> TRUE, items |-> kwargs]

JsonArray == [mapping |-> FALSE, items |-> <<>>]

\* the tool calls the completion oracle may request (id aside)
ToolCallKinds ==
    { [type |-> "function", name |-> SearchName,
       arguments |-> JsonText(JsonObject([query |-> "q"]))],
      [type |-> "function", name |-> SearchName, arguments |-> MalformedJson],
      [type |-> "function", name |-> SearchName, arguments |-> JsonText(JsonArray)],
      [type |-> "function", name |-> SearchName,
       arguments |-> JsonText(JsonObject([course_name |-> Some("X")]))],
      [type |-> "function", name |-> OutlineName,
       arguments |-> JsonText(JsonObject([course_name |-> Some("X")]))],
      [type |-> "function", name |-> "nope",
       arguments |-> JsonText(JsonObject([query |-> "q"]))],
      [type |-> "custom", name |-> "nope", arguments |-> MalformedJson] }

\* well-formed calls of the content search tool
SearchCallKinds ==
    { k \in ToolCallKinds : k.name = SearchName /\ k.arguments = JsonText(JsonObject([query |-> "q"])) }

\* the tool_calls lists of 1..n calls over kinds, the i-th call's id being "call_<i>"
ToolCallLists(kinds, n) ==
    UNION { { [i \in 1..k |-> ks[i] @@ [id |-> "call_" \o ToString(i)]] : ks \in [1..k -> kinds] }
            : k \in 1..n }

\* the first responses of the completion oracle: a direct answer, or, when tools
\* were offered, a request for tool calls
FirstResponses(offered, kinds, n) ==
    { [finish_reason |-> "stop", content |-> Some("direct answer"), tool_calls |-> None] }
    \cup IF offered
         THEN { [finish_reason |-> "tool_calls", content |-> None, tool_calls |-> tcs]
                  : tcs \in ToolCallLists(kinds, n) }
         ELSE {}

\* the values of the argument tools: None, an empty list, the registry's definitions
ToolsArgs == { None, Some(<<>>), Some(get_tool_definitions(AppTools)) }

\* truthiness of Optional[List]
TruthyList(o) == o # None /\ Len(o[1]) > 0

\* the message list of lines 73-78
InitialMessages(query, conversation_history) ==
    << [role |-> "system", content |-> SYSTEM_PROMPT] >>
    \o (IF TruthyStr(conversation_history)
        THEN << [role |-> "system",
                 content |-> "Previous conversation:\n" \o conversation_history[1]] >>
        ELSE <<>>)
    \o << [role |-> "user", content |-> query] >>

\* api_params of lines 81-89
ApiParams(messages, tls) ==
    IF TruthyList(tls)
    THEN base_params @@ [messages |-> messages, tools |-> tls, tool_choice |-> Some("auto")]
    ELSE base_params @@ [messages |-> messages, tools |-> None, tool_choice |-> None]

\* final_params of lines 139-142
FinalParams(messages) ==
    base_params @@ [messages |-> messages, tools |-> None, tool_choice |-> None]

\* generate_response up to the first answer of the oracle, lines 73-99, and the
\* start of _handle_tool_execution, lines 114-121
generate_response(r, query, conversation_history, tls, tool_manager, response) ==
    LET messages   == InitialMessages(query, conversation_history)
        api_params == ApiParams(messages, tls)
    IN  IF response.finish_reason = "tool_calls" /\ tool_manager
        THEN [req[r] EXCEPT
                 !.pc = "tools", !.tool_manager = tool_manager,
                 !.api_calls = <<api_params>>, !.response = Some(response),
                 !.messages = Append(api_params.messages,
                                     [role |-> "assistant", content |-> response.content,
                                      tool_calls |-> response.tool_calls]),
                 !.i = 1]
        ELSE [req[r] EXCEPT
                 !.pc = "returned", !.tool_manager = tool_manager,
                 !.api_calls = <<api_params>>, !.response = Some(response),
                 !.result = Returned(response.content)]

\* keyword arguments a tool call decodes to, when it decodes to a mapping
KwargsOf(tool_call) == tool_call.arguments.value.items

\* one iteration of the loop of _handle_tool_execution, lines 124-136, on
\* tool_call: what it raises, the messages after it, every last_sources after it
tool_iteration(tls, ls, messages, tool_call, answer) ==
    IF tool_call.type # "function"
    THEN [raised |-> "", messages |-> messages, last_sources |-> ls]
    ELSE LET parsed == json_loads(tool_call.arguments)
         IN  IF parsed.raised # ""
             THEN [raised |-> parsed.raised, messages |-> messages, last_sources |-> ls]
             ELSE IF ~parsed.value.mapping
             THEN [raised |-> "TypeError", messages |-> messages, last_sources |-> ls]
             ELSE LET tool_result == execute_tool(tls, ls, tool_call.name,
                                                  parsed.value.items, answer)
                  IN  IF tool_result.raised # ""
                      THEN [raised |-> tool_result.raised, messages |-> messages,
                            last_sources |-> tool_result.last_sources]
                      ELSE [raised |-> "",
                            messages |-> Append(messages,
                                                [role |-> "tool",
                                                 content |-> tool_result.value,
                                                 tool_call_id |-> tool_call.id]),
                            last_sources |-> tool_result.last_sources]

\* whether executing tool_call reaches the body of a registered content search tool
RunsSearch(tls, tool_call) ==
    /\ tool_call.type = "function"
    /\ tool_call.arguments.wellformed
    /\ tool_call.arguments.value.mapping
    /\ Registered(tls, tool_call.name)
    /\ ClassOf(Lookup(tls, tool_call.name)) = "CourseSearchTool"
    /\ SearchBinds(KwargsOf(tool_call))

\* what the backend (or tool) can answer to tool_call
CallAnswers(tls, tool_call, answers) ==
    IF tool_call.type = "function" /\ tool_call.arguments.wellformed
       /\ tool_call.arguments.value.mapping
    THEN AnswersFor(tls, tool_call.name, KwargsOf(tool_call), answers)
    ELSE {None}

\* history: the sources a request's own searches would leave were it alone
OwnAfter(own, tls, tool_call, answer) ==
    IF RunsSearch(tls, tool_call) /\ ~TruthyStr(answer.error) /\ ~is_empty(answer)
    THEN SourcesOf(answer) ELSE own

\* history: the other requests in flight see last_sources change under them
Touch(rq, r, changed) ==
    [o \in DOMAIN rq |->
        IF o # r /\ changed /\ rq[o].pc \in {"tools", "returned"}
        THEN [rq[o] EXCEPT !.touched = TRUE] ELSE rq[o]]

(***************************************************************************)
(* The steps of one request r.                                             *)
(***************************************************************************)
GenStart(r, tlsArgs, managers, kinds) ==
    /\ req[r].pc = "idle"
    /\ \E conversation_history \in {None, Some("earlier")}, tls \in tlsArgs,
          tool_manager \in managers :
         \E response \in FirstResponses(TruthyList(tls), kinds, MaxCalls) :
            req' = [req EXCEPT ![r] =
                      [generate_response(r, "question", conversation_history, tls,
                                         tool_manager, response)
                       EXCEPT !.touched = get_last_sources(tools, last_sources) # <<>>]]
    /\ UNCHANGED <<tools, last_sources, call, ret, latest>>

GenToolCall(r, answers) ==
    /\ req[r].pc = "tools"
    /\ req[r].i <= Len(req[r].response[1].tool_calls)
    /\ LET tool_call == req[r].response[1].tool_calls[req[r].i]
       IN  \E answer \in CallAnswers(tools, tool_call, answers) :
             LET it == tool_iteration(tools, last_sources, req[r].messages, tool_call, answer)
             IN  /\ last_sources' = it.last_sources
                 /\ req' = Touch(
                             [req EXCEPT ![r] =
                                IF it.raised # ""
                                THEN [@ EXCEPT !.pc = "raised", !.result = Raised(it.raised)]
                                ELSE [@ EXCEPT !.messages = it.messages, !.i = @ + 1,
                                               !.own = OwnAfter(@, tools, tool_call, answer)]],
                             r, it.last_sources # last_sources)
    /\ UNCHANGED <<tools, call, ret, latest>>

\* the final call without tools, lines 139-146
GenFinal(r) ==
    /\ req[r].pc = "tools"
    /\ req[r].i > Len(req[r].response[1].tool_calls)
    /\ req' = [req EXCEPT ![r] =
                 [@ EXCEPT !.pc = "returned",
                           !.api_calls = Append(@, FinalParams(req[r].messages)),
                           !.result = Returned(Some("final answer"))]]
    /\ UNCHANGED <<tools, last_sources, call, ret, latest>>

(***************************************************************************)
(* SpecGenerate: one generate_response call, from every argument and every *)
(* answer of the oracle, on the application's registry.                    *)
(***************************************************************************)
Generate == GenStart(1, ToolsArgs, BOOLEAN, ToolCallKinds)

ToolCall == GenToolCall(1, FewAnswers)

Final == GenFinal(1)

NextGenerate ==
    \/ Generate
    \/ ToolCall
    \/ Final

SpecGenerate == InitSearch /\ [][NextGenerate]_vars

(***************************************************************************)
(* Properties of generate_response, checked under SpecGenerate.            *)
(***************************************************************************)
\* generate_response has ended, by returning or by raising
Ended(q) == q.pc \in {"returned", "raised"}

\* the first response requested tool calls and a tool manager was supplied
ToolRound(q) ==
    /\ q.response # None
    /\ q.response[1].finish_reason = "tool_calls"
    /\ q.tool_manager

\* the positions of the tool-result messages that answer the call with this id
ToolResults(messages, id) ==
    { j \in 1..Len(messages) : messages[j].role = "tool" /\ messages[j].tool_call_id = id }

\* C1: when the first response has a tool-call finish reason and a tool manager
\* is supplied, exactly two oracle calls are made, the first with tools, the
\* second without, and the second call's messages hold one tool-result message
\* per requested tool call, whatever the number and kind of the calls.
C1_TwoOracleCalls ==
    (Ended(req[1]) /\ ToolRound(req[1])) =>
        /\ Len(req[1].api_calls) = 2
        /\ TruthyList(req[1].api_calls[1].tools)
        /\ req[1].api_calls[2].tools = None
        /\ \A i \in 1..Len(req[1].response[1].tool_calls) :
              Cardinality(ToolResults(req[1].api_calls[2].messages,
                                      req[1].response[1].tool_calls[i].id)) = 1
        /\ Cardinality({ j \in 1..Len(req[1].api_calls[2].messages) :
                            req[1].api_calls[2].messages[j].role = "tool" })
              = Len(req[1].response[1].tool_calls)

\* executing the tool call fails: its arguments are no JSON, no JSON object, or
\* do not bind to the parameters of the registered tool's execute
ExecutionFails(tls, tool_call) ==
    /\ tool_call.type = "function"
    /\ \/ ~tool_call.arguments.wellformed
       \/ ~tool_call.arguments.value.mapping
       \/ /\ Registered(tls, tool_call.name)
          /\ LET tool == Lookup(tls, tool_call.name)
             IN  \/ ClassOf(tool) = "CourseSearchTool" /\ ~SearchBinds(KwargsOf(tool_call))
                 \/ ClassOf(tool) = "CourseOutlineTool" /\ ~OutlineBinds(KwargsOf(tool_call))

\* C2: a failing tool execution never aborts the loop: no exception reaches the
\* caller of generate_response, the failure is the text of a tool-result
\* message and the second oracle call is made.
C2_ToolFailureBecomesText ==
    (Ended(req[1]) /\ ToolRound(req[1])) =>
        \A i \in 1..Len(req[1].response[1].tool_calls) :
            ExecutionFails(tools, req[1].response[1].tool_calls[i]) =>
                /\ req[1].pc = "returned"
                /\ req[1].result.raised = ""
                /\ Len(req[1].api_calls) = 2
                /\ ToolResults(req[1].api_calls[2].messages,
                               req[1].response[1].tool_calls[i].id) # {}

(***************************************************************************)
(* SpecConcurrent: two requests served at once on the application's        *)
(* registry.  Each request's caller calls generate_response with the       *)
(* registry's tools, then get_last_sources, then reset_sources.  A step is *)
(* one oracle call, one tool execution or one registry call.               *)
(***************************************************************************)
Requests == {1, 2}

\* the backend answers request r with its own hit, or with nothing
RequestAnswers(r) ==
    { ResultsOf(<<>>),
      ResultsOf(<< IF r = 1 THEN [doc |-> "d1", meta |-> [course_title |-> "X", lesson_number |-> 2]]
                            ELSE [doc |-> "d3", meta |-> [course_title |-> "Y"]] >>) }

\* the caller reads the sources after generate_response has returned
CallerCollect(r) ==
    /\ req[r].pc = "returned"
    /\ req' = [req EXCEPT ![r] =
                 [@ EXCEPT !.pc = "collected",
                           !.collected = get_last_sources(tools, last_sources)]]
    /\ UNCHANGED <<tools, last_sources, call, ret, latest>>

\* the caller clears the sources
CallerReset(r) ==
    /\ req[r].pc = "collected"
    /\ last_sources' = reset_sources(tools, last_sources)
    /\ req' = Touch([req EXCEPT ![r] = [@ EXCEPT !.pc = "done"]], r,
                    reset_sources(tools, last_sources) # last_sources)
    /\ UNCHANGED <<tools, call, ret, latest>>

Start == \E r \in Requests :
            GenStart(r, {Some(get_tool_definitions(AppTools))}, {TRUE}, SearchCallKinds)

Search == \E r \in Requests : GenToolCall(r, RequestAnswers(r))

Answer == \E r \in Requests : GenFinal(r)

Collect == \E r \in Requests : CallerCollect(r)

Reset == \E r \in Requests : CallerReset(r)

NextConcurrent ==
    \/ Start
    \/ Search
    \/ Answer
    \/ Collect
    \/ Reset

SpecConcurrent == InitSearch /\ [][NextConcurrent]_vars

\* what generate_response and its caller hold for one request (history aside)
Locals(q) ==
    [pc |-> q.pc, tool_manager |-> q.tool_manager, api_calls |-> q.api_calls,
     response |-> q.response, messages |-> q.messages, i |-> q.i, result |-> q.result,
     collected |-> q.collected]

\* a caller collects sources other than its own searches' only after the other
\* request wrote or cleared last_sources under it, or left sources behind
C10_Hazard ==
    \A r \in Requests :
        (req[r].pc \in {"collected", "done"} /\ req[r].collected # req[r].own)
            => req[r].touched

\* C10: two concurrent requests on one registry share no mutable state but
\* last_sources: every step changes the locals of one request only and never
\* the registry's name-to-tool mapping; and last_sources is a read-after-write
\* hazard: a caller can collect sources that are not its own request's, which
\* happens only when the other request wrote or cleared them in between.
C10_OnlyLastSourcesIsShared ==
    /\ []C10_Hazard
    /\ [][/\ tools' = tools
          /\ \E r \in Requests :
                \A o \in Requests \ {r} : Locals(req'[o]) = Locals(req[o])]_vars

\* request 1 searched and found its own hit, yet its caller collected the
\* source of request 2's hit; request 2's caller collected nothing although
\* its search found a hit, because request 1's caller had reset in between
C10_Witness ==
    /\ req[1].pc \in {"collected", "done"}
    /\ req[1].own = <<"[X - Lesson 2](https://l/x2)">>
    /\ req[1].collected = <<"Y">>
    /\ req[2].pc \in {"collected", "done"}
    /\ req[2].own = <<"Y">>
    /\ req[2].collected = <<>>

====
